---------------------------- MODULE Spec2Model ----------------------------
(***************************************************************************)
(* A model of the phrase-net backend (phrase-net-backend/phrase_net_core.py *)
(* and main.py): the graph pipeline _filter_network -> _compress_edges ->  *)
(* _serialize_graph, the window linking of _orthographic_linking, and the  *)
(* module-level NLP_CONFIG that load_nlp_pipeline fills.                   *)
(*                                                                         *)
(* A node id is a Python string.  It is modelled as the sequence of its    *)
(* tokens: a lemma "a" is <<"a">>, and the name                            *)
(* "SUPER_NODE:" + "|".join(group) is <<"SUPER_NODE:">> followed by the    *)
(* tokens of the members.  A graph is a record                             *)
(*   nodes         the set of node ids                                     *)
(*   frequency     the "frequency" attribute, defined on the nodes that    *)
(*                 have one                                                *)
(*   group_members the "group_members" attribute, likewise                 *)
(*   weight        the "weight" attribute of each edge <<u, v>>; its       *)
(*                 domain is the edge set                                  *)
(* The "relation" edge attribute is carried along by the code and read by  *)
(* nothing modelled here; it is left out.                                  *)
(***************************************************************************)
EXTENDS Integers, Sequences, FiniteSets, TLC

VARIABLES
    pc,               \* where the modelled run is
    graph,            \* the graph under construction / the initial graph
    order,            \* graph.nodes() of the initial graph: insertion order
    stopwords,        \* the caller's stopword list (as a set of raw words)
    max_nodes,        \* the caller's max_nodes
    sorted_nodes,     \* _filter_network: sorted_nodes (the ids only)
    first_selected,   \* _filter_network: selected_nodes after the first loop
    selected_nodes,   \* _filter_network: selected_nodes after the second loop
    filtered_graph,   \* what _filter_network returned
    compressed_graph, \* what _compress_edges returned
    recompressed,     \* what _compress_edges returned on compressed_graph
    result,           \* what _serialize_graph returned
    lemmas,           \* _orthographic_linking: lemmas
    i,                \* _orthographic_linking: the window index
    NLP_CONFIG,       \* the module-level NLP_CONFIG
    installed,        \* the annotators whose model can be loaded
    history,          \* one record per finished request, oldest first
    req,              \* per thread: the annotator the request named
    tpc,              \* per thread: position in run_phrase_net_analysis
    nlp,              \* per thread: the local nlp of the linking step
    tool              \* per thread: the local tool of the linking step

vars == <<pc, graph, order, stopwords, max_nodes, sorted_nodes, first_selected,
          selected_nodes, filtered_graph, compressed_graph, recompressed,
          result, lemmas, i, NLP_CONFIG, installed, history, req, tpc, nlp,
          tool>>

(***************************************************************************)
(* Bounds of the model.                                                    *)
(***************************************************************************)
MaxNodes == 3        \* nodes of an initial graph
MaxTotalWeight == 3  \* sum of the edge weights of an initial graph
MaxExtraFreq == 1    \* occurrences counted beyond one per lemma
MaxLen == 6          \* lemmas of a text
MaxRequests == 3     \* requests served one after the other
window_size == 5

Words == <<"a", "b", "c", "d", "e">>
SUPER == "SUPER_NODE:"

Lemma(k) == <<Words[k]>>

None == "None"

EmptyGraph ==
    [nodes |-> {}, frequency |-> <<>>, group_members |-> <<>>, weight |-> <<>>]

NoResult == [nodes |-> {}, edges |-> {}, node_count |-> 0, edge_count |-> 0]

(***************************************************************************)
(* Strings.                                                                *)
(***************************************************************************)
\* str.lower() on one token.
LowerToken(t) ==
    CASE t = "A" -> "a"
      [] t = "B" -> "b"
      [] t = "C" -> "c"
      [] t = SUPER -> "super_node:"
      [] OTHER -> t

\* str.lower() on a string.
Lower(s) == [k \in DOMAIN s |-> LowerToken(s[k])]

\* n.startswith("SUPER_NODE:")
StartsWithSuper(n) == Len(n) > 0 /\ n[1] = SUPER

(***************************************************************************)
(* Graph helpers (networkx.DiGraph).                                       *)
(***************************************************************************)
RECURSIVE SumWeights(_, _)
SumWeights(w, E) ==
    IF E = {} THEN 0
    ELSE LET e == CHOOSE x \in E : TRUE
         IN  w[e] + SumWeights(w, E \ {e})

RECURSIVE SumFrequency(_, _)
\* sum(graph.nodes[n].get("frequency", 1) for n in S)
SumFrequency(g, S) ==
    IF S = {} THEN 0
    ELSE LET n == CHOOSE x \in S : TRUE
         IN  (IF n \in DOMAIN g.frequency THEN g.frequency[n] ELSE 1)
             + SumFrequency(g, S \ {n})

Edges(g) == DOMAIN g.weight
OutEdges(g, n) == {e \in Edges(g) : e[1] = n}
InEdges(g, n) == {e \in Edges(g) : e[2] = n}
Successors(g, n) == {e[2] : e \in OutEdges(g, n)}
Predecessors(g, n) == {e[1] : e \in InEdges(g, n)}
TotalWeight(g) == SumWeights(g.weight, Edges(g))

\* nx.isolates: the nodes of degree zero.
Isolates(g) == {n \in g.nodes : OutEdges(g, n) = {} /\ InEdges(g, n) = {}}

\* The graph without the nodes of S and without their edges.
RemoveNodesFrom(g, S) ==
    LET keep == g.nodes \ S
    IN  [nodes |-> keep,
         frequency |-> [n \in (DOMAIN g.frequency) \ S |-> g.frequency[n]],
         group_members |->
             [n \in (DOMAIN g.group_members) \ S |-> g.group_members[n]],
         weight |-> [e \in {x \in Edges(g) : x[1] \in keep /\ x[2] \in keep}
                         |-> g.weight[e]]]

\* graph.subgraph(S).copy()
Subgraph(g, S) == RemoveNodesFrom(g, g.nodes \ S)

\* graph.add_node(n, frequency=f)
AddNodeTo(g, n, f) ==
    [g EXCEPT !.nodes = @ \cup {n},
              !.frequency = [m \in DOMAIN @ \cup {n} |->
                                 IF m = n THEN f ELSE @[m]]]

\* A bug to test the properties against: an edge that is already there is
\* set to weight 1 again.
BumpEdgeReset(g, u, v) ==
    [g EXCEPT !.nodes = @ \cup {u, v},
              !.weight = [e \in DOMAIN @ \cup {<<u, v>>} |->
                              IF e = <<u, v>> THEN 1 ELSE @[e]]]

\* if graph.has_edge(u, v): weight += 1  else: graph.add_edge(u, v, weight=1)
BumpEdge(g, u, v) ==
    [g EXCEPT !.nodes = @ \cup {u, v},
              !.weight = [e \in DOMAIN @ \cup {<<u, v>>} |->
                              IF e = <<u, v>>
                              THEN (IF e \in DOMAIN @ THEN @[e] + 1 ELSE 1)
                              ELSE @[e]]]

Range(s) == {s[k] : k \in DOMAIN s}

(***************************************************************************)
(* _filter_network                                                         *)
(***************************************************************************)
\* A bug to test the properties against: the stopwords are not lowercased.
StopwordsSetAsGiven(stop) == stop

\* stopwords_set = set(w.lower() for w in stopwords)
StopwordsSet(stop) == {Lower(w) : w \in stop}

\* nodes_to_remove, as a set
NodesToRemove(g, stop) == {n \in g.nodes : Lower(n) \in StopwordsSet(stop)}

\* score of one node: its outgoing plus its incoming edge weights
Score(g, n) ==
    SumWeights(g.weight, OutEdges(g, n)) + SumWeights(g.weight, InEdges(g, n))

\* The keys of node_scores, in the order they were inserted.
ScoredNodes(g, ord, stop) ==
    SelectSeq(ord, LAMBDA n : n \notin NodesToRemove(g, stop))

RECURSIVE InsertByScoreUnstable(_, _, _)
\* A bug to test the properties against: a sort that is not stable.
InsertByScoreUnstable(g, s, n) ==
    IF s = <<>> THEN <<n>>
    ELSE IF Score(g, Head(s)) > Score(g, n)
         THEN <<Head(s)>> \o InsertByScoreUnstable(g, Tail(s), n)
         ELSE <<n>> \o s

RECURSIVE InsertByScore(_, _, _)
\* s is sorted by score, descending; n goes behind every node whose score is
\* at least its own.
InsertByScore(g, s, n) ==
    IF s = <<>> THEN <<n>>
    ELSE IF Score(g, Head(s)) >= Score(g, n)
         THEN <<Head(s)>> \o InsertByScore(g, Tail(s), n)
         ELSE <<n>> \o s

RECURSIVE SortByScore(_, _)
\* sorted(..., key=score, reverse=True): stable, so nodes of equal score keep
\* the order they have in s.
SortByScore(g, s) ==
    IF s = <<>> THEN <<>>
    ELSE InsertByScore(g, SortByScore(g, SubSeq(s, 1, Len(s) - 1)), s[Len(s)])

SortedNodes(g, ord, stop) == SortByScore(g, ScoredNodes(g, ord, stop))

RECURSIVE FirstLoopOneMore(_, _, _, _)
\* A bug to test the properties against: the loop runs while
\* len(selected_nodes) <= max_nodes.
FirstLoopOneMore(sorted, max, selected, idx) ==
    IF Len(selected) <= max /\ idx < Len(sorted)
    THEN FirstLoopOneMore(sorted, max, Append(selected, sorted[idx + 1]),
                          idx + 1)
    ELSE [selected |-> selected, idx |-> idx]

RECURSIVE FirstLoop(_, _, _, _)
\* The first while loop, from (selected, idx); returns both where it stops.
FirstLoop(sorted, max, selected, idx) ==
    IF Len(selected) < max /\ idx < Len(sorted)
    THEN LET node == sorted[idx + 1]
         IN  FirstLoop(sorted, max,
                       IF ~StartsWithSuper(node) THEN Append(selected, node)
                       ELSE selected,
                       idx + 1)
    ELSE [selected |-> selected, idx |-> idx]

RECURSIVE SecondLoop(_, _, _, _)
\* The second while loop, from (selected, idx).
SecondLoop(sorted, max, selected, idx) ==
    IF Len(selected) < max /\ idx < Len(sorted)
    THEN SecondLoop(sorted, max, Append(selected, sorted[idx + 1]), idx + 1)
    ELSE [selected |-> selected, idx |-> idx]

\* Everything _filter_network computes.
FilterNetwork(g, ord, max, stop) ==
    LET temp_graph == RemoveNodesFrom(g, NodesToRemove(g, stop))
        sorted == SortedNodes(g, ord, stop)
        one == FirstLoop(sorted, max, <<>>, 0)
        two == SecondLoop(sorted, max, one.selected, one.idx)
        sub == Subgraph(temp_graph, Range(two.selected))
    IN  [sorted_nodes |-> sorted,
         first_selected |-> one.selected,
         selected_nodes |-> two.selected,
         filtered_graph |-> RemoveNodesFrom(sub, Isolates(sub))]

(***************************************************************************)
(* _compress_edges                                                         *)
(***************************************************************************)
SameNeighborhood(g, a, b) ==
    /\ Predecessors(g, b) = Predecessors(g, a)
    /\ Successors(g, b) = Successors(g, a)

RECURSIVE EquivalentNodes(_, _)
\* The while loop over nodes_to_check: the groups of more than one node.
\* set.pop() takes some node; the groups found do not depend on which.
EquivalentNodes(g, nodes_to_check) ==
    IF nodes_to_check = {} THEN {}
    ELSE LET node == CHOOSE n \in nodes_to_check : TRUE
             group == {node} \cup {other \in nodes_to_check \ {node} :
                                       SameNeighborhood(g, node, other)}
         IN  (IF Cardinality(group) > 1 THEN {group} ELSE {})
             \cup EquivalentNodes(g, nodes_to_check \ group)

RECURSIVE Join(_)
\* "|".join(group): the members' tokens, in the order list(group) gives.
\* Names that differ only in that order name the same group.
Join(group) ==
    IF group = {} THEN <<>>
    ELSE LET n == CHOOSE x \in group : TRUE
         IN  n \o Join(group \ {n})

SuperNodeName(group) == <<SUPER>> \o Join(group)

\* node_map after the loop over equivalent_nodes
NodeMap(g, groups) ==
    [n \in g.nodes |->
        IF \E grp \in groups : n \in grp
        THEN SuperNodeName(CHOOSE grp \in groups : n \in grp)
        ELSE n]

\* A bug to test the properties against: a remapped edge that is already
\* there keeps the weight it has.
MergedWeightFirstOnly(g, node_map, ne) ==
    LET from == {e \in Edges(g) : <<node_map[e[1]], node_map[e[2]]>> = ne}
    IN  g.weight[CHOOSE e \in from : TRUE]

\* The weight of the edge ne of the compressed graph: every edge of g that is
\* remapped onto it adds its weight.
MergedWeight(g, node_map, ne) ==
    SumWeights(g.weight,
               {e \in Edges(g) : <<node_map[e[1]], node_map[e[2]]>> = ne})

CompressEdges(g) ==
    IF g.nodes = {} THEN g
    ELSE
    LET groups == EquivalentNodes(g, g.nodes)
        node_map == NodeMap(g, groups)
        supers == {SuperNodeName(grp) : grp \in groups}
        kept == {e \in Edges(g) : node_map[e[1]] # node_map[e[2]]}
        new_edges == {<<node_map[e[1]], node_map[e[2]]>> : e \in kept}
    IN  [nodes |-> supers \cup {e[1] : e \in new_edges}
                          \cup {e[2] : e \in new_edges},
         frequency |->
             [s \in supers |->
                 SumFrequency(g, CHOOSE grp \in groups : SuperNodeName(grp) = s)],
         group_members |->
             [s \in supers |-> CHOOSE grp \in groups : SuperNodeName(grp) = s],
         weight |-> [ne \in new_edges |-> MergedWeight(g, node_map, ne)]]

(***************************************************************************)
(* _serialize_graph                                                        *)
(***************************************************************************)
\* valid_node_ids
ValidNodeIds(g, stop) ==
    {n \in g.nodes : Lower(n) \notin StopwordsSet(stop) /\ ~StartsWithSuper(n)}

\* group_members is {} where the code leaves the key out.
SerializeGraph(g, stop) ==
    LET valid == ValidNodeIds(g, stop)
        nodes == {[id |-> n,
                   label |-> n,
                   frequency |-> IF n \in DOMAIN g.frequency
                                 THEN g.frequency[n] ELSE 1,
                   inDegree |-> Cardinality(InEdges(g, n)),
                   outDegree |-> Cardinality(OutEdges(g, n)),
                   group_members |-> IF n \in DOMAIN g.group_members
                                     THEN g.group_members[n] ELSE {}]
                  : n \in valid}
        edges == {[source |-> e[1], target |-> e[2], weight |-> g.weight[e]]
                  : e \in {x \in Edges(g) : x[1] \in valid /\ x[2] \in valid}}
    IN  [nodes |-> nodes, edges |-> edges,
         node_count |-> Cardinality(nodes), edge_count |-> Cardinality(edges)]

(***************************************************************************)
(* The initial graph.  The linking builders make it by graph.add_node and  *)
(* by adding an edge of weight 1 or raising an edge's weight by 1, and     *)
(* never make a self-loop; the steps below make every such graph within    *)
(* the bounds.                                                             *)
(***************************************************************************)
StopChoices == SUBSET {<<"A">>, <<"b">>, <<"c">>}

ExtraFreq(g) == SumFrequency(g, g.nodes) - Cardinality(g.nodes)

\* graph.add_node(token, frequency=1) for the next new lemma
AddNode ==
    /\ pc = "build"
    /\ Len(order) < MaxNodes
    /\ graph' = AddNodeTo(graph, Lemma(Len(order) + 1), 1)
    /\ order' = Append(order, Lemma(Len(order) + 1))
    /\ UNCHANGED <<pc, stopwords, max_nodes, sorted_nodes, first_selected,
                   selected_nodes, filtered_graph, compressed_graph,
                   recompressed, result, lemmas, i, NLP_CONFIG, installed,
                   history, req, tpc, nlp, tool>>

\* one more occurrence of a lemma counted into its frequency
CountOccurrence ==
    /\ pc = "build"
    /\ ExtraFreq(graph) < MaxExtraFreq
    /\ \E n \in graph.nodes :
           graph' = AddNodeTo(graph, n, graph.frequency[n] + 1)
    /\ UNCHANGED <<pc, order, stopwords, max_nodes, sorted_nodes,
                   first_selected, selected_nodes, filtered_graph,
                   compressed_graph, recompressed, result, lemmas, i,
                   NLP_CONFIG, installed, history, req, tpc, nlp, tool>>

\* one link between two different lemmas
AddEdge ==
    /\ pc = "build"
    /\ TotalWeight(graph) < MaxTotalWeight
    /\ \E u \in graph.nodes, v \in graph.nodes :
           /\ u # v
           /\ graph' = BumpEdge(graph, u, v)
    /\ UNCHANGED <<pc, order, stopwords, max_nodes, sorted_nodes,
                   first_selected, selected_nodes, filtered_graph,
                   compressed_graph, recompressed, result, lemmas, i,
                   NLP_CONFIG, installed, history, req, tpc, nlp, tool>>

(***************************************************************************)
(* run_phrase_net_analysis from the initial graph on.                      *)
(***************************************************************************)
\* if not initial_graph.nodes: return _serialize_graph(initial_graph, stopwords)
SerializeEmpty ==
    /\ pc = "build"
    /\ graph.nodes = {}
    /\ \E stop \in StopChoices :
           /\ stopwords' = stop
           /\ result' = SerializeGraph(graph, stop)
    /\ pc' = "done"
    /\ UNCHANGED <<graph, order, max_nodes, sorted_nodes, first_selected,
                   selected_nodes, filtered_graph, compressed_graph,
                   recompressed, lemmas, i, NLP_CONFIG, installed, history,
                   req, tpc, nlp, tool>>

\* filtered_graph = _filter_network(initial_graph, max_nodes, stopwords)
Filter ==
    /\ pc = "build"
    /\ graph.nodes # {}
    /\ \E max \in 0..(MaxNodes + 1), stop \in StopChoices :
           LET f == FilterNetwork(graph, order, max, stop)
           IN  /\ max_nodes' = max
               /\ stopwords' = stop
               /\ sorted_nodes' = f.sorted_nodes
               /\ first_selected' = f.first_selected
               /\ selected_nodes' = f.selected_nodes
               /\ filtered_graph' = f.filtered_graph
    /\ pc' = "filtered"
    /\ UNCHANGED <<graph, order, compressed_graph, recompressed, result,
                   lemmas, i, NLP_CONFIG, installed, history, req, tpc, nlp,
                   tool>>

\* final_compressed_graph = _compress_edges(filtered_graph)
Compress ==
    /\ pc = "filtered"
    /\ compressed_graph' = CompressEdges(filtered_graph)
    /\ pc' = "compressed"
    /\ UNCHANGED <<graph, order, stopwords, max_nodes, sorted_nodes,
                   first_selected, selected_nodes, filtered_graph,
                   recompressed, result, lemmas, i, NLP_CONFIG, installed,
                   history, req, tpc, nlp, tool>>

\* return _serialize_graph(final_compressed_graph, stopwords)
Serialize ==
    /\ pc = "compressed"
    /\ result' = SerializeGraph(compressed_graph, stopwords)
    /\ pc' = "done"
    /\ UNCHANGED <<graph, order, stopwords, max_nodes, sorted_nodes,
                   first_selected, selected_nodes, filtered_graph,
                   compressed_graph, recompressed, lemmas, i, NLP_CONFIG,
                   installed, history, req, tpc, nlp, tool>>

Init ==
    /\ pc = "build"
    /\ graph = EmptyGraph
    /\ order = <<>>
    /\ stopwords = {}
    /\ max_nodes = 0
    /\ sorted_nodes = <<>>
    /\ first_selected = <<>>
    /\ selected_nodes = <<>>
    /\ filtered_graph = EmptyGraph
    /\ compressed_graph = EmptyGraph
    /\ recompressed = EmptyGraph
    /\ result = NoResult
    /\ lemmas = <<>>
    /\ i = 0
    /\ NLP_CONFIG = [tool_name |-> None, pipeline |-> None]
    /\ installed = {}
    /\ history = <<>>
    /\ req = <<>>
    /\ tpc = <<>>
    /\ nlp = <<>>
    /\ tool = <<>>

Next ==
    \/ AddNode
    \/ AddEdge
    \/ SerializeEmpty
    \/ Filter
    \/ Compress
    \/ Serialize

Spec == Init /\ [][Next]_vars

(***************************************************************************)
(* _compress_edges on its own: on every graph _filter_network can return   *)
(* (no isolated node), with the frequencies varied, and once more on its   *)
(* own result.                                                             *)
(***************************************************************************)
CompressGraph ==
    /\ pc = "build"
    /\ Isolates(graph) = {}
    /\ filtered_graph' = graph
    /\ compressed_graph' = CompressEdges(graph)
    /\ pc' = "compressed"
    /\ UNCHANGED <<graph, order, stopwords, max_nodes, sorted_nodes,
                   first_selected, selected_nodes, recompressed, result,
                   lemmas, i, NLP_CONFIG, installed, history, req, tpc, nlp,
                   tool>>

Recompress ==
    /\ pc = "compressed"
    /\ recompressed' = CompressEdges(compressed_graph)
    /\ pc' = "recompressed"
    /\ UNCHANGED <<graph, order, stopwords, max_nodes, sorted_nodes,
                   first_selected, selected_nodes, filtered_graph,
                   compressed_graph, result, lemmas, i, NLP_CONFIG, installed,
                   history, req, tpc, nlp, tool>>

NextCompress ==
    \/ AddNode
    \/ CountOccurrence
    \/ AddEdge
    \/ CompressGraph
    \/ Recompress
    \/ Serialize

SpecCompress == Init /\ [][NextCompress]_vars

(***************************************************************************)
(* _orthographic_linking                                                   *)
(***************************************************************************)
LinkLemmas == {Lemma(1), Lemma(2), Lemma(3)}
LinkStopChoices == {{}, {<<"A">>, <<"c">>}}

\* lemmas[i:i + window_size], i counted from 0
Window(ls, k) == SubSeq(ls, k + 1, k + window_size)

\* range(len(lemmas) - window_size + 1)
WindowCount(ls) ==
    IF Len(ls) - window_size + 1 > 0 THEN Len(ls) - window_size + 1 ELSE 0

\* The orders in which a set can be iterated.
IterationOrders(S) ==
    {p \in [1..Cardinality(S) -> S] : \A j, k \in DOMAIN p : j # k => p[j] # p[k]}

\* combinations(s, 2) of a sequence: the pairs <<s[j], s[k]>> with j < k
Combinations2(s) ==
    {<<s[x[1]], s[x[2]]>> : x \in {y \in (DOMAIN s) \X (DOMAIN s) : y[1] < y[2]}}

RECURSIVE LinkPairs(_, _)
\* The inner for loop over the pairs of one window.
LinkPairs(g, pairs) ==
    IF pairs = {} THEN g
    ELSE LET p == CHOOSE x \in pairs : TRUE
         IN  LinkPairs(IF p[1] # p[2] THEN BumpEdge(g, p[1], p[2]) ELSE g,
                       pairs \ {p})

RECURSIVE FirstOccurrences(_)
\* The keys of Counter(lemmas), in insertion order.
FirstOccurrences(ls) ==
    IF ls = <<>> THEN <<>>
    ELSE LET front == FirstOccurrences(SubSeq(ls, 1, Len(ls) - 1))
         IN  IF ls[Len(ls)] \in Range(front) THEN front
             ELSE Append(front, ls[Len(ls)])

\* Counter(lemmas)[token]
TokenFrequency(ls, token) == Cardinality({k \in DOMAIN ls : ls[k] = token})

\* The graph after the loop over token_frequency.items().
NodesOf(ls) ==
    [nodes |-> Range(ls),
     frequency |-> [n \in Range(ls) |-> TokenFrequency(ls, n)],
     group_members |-> <<>>,
     weight |-> <<>>]

\* Lines 55-74: the lemmas that are no stopword, and one node per lemma.
\* Every branch keeps a lemma only if it is not in set(stopwords), which
\* is not lowercased here.
CountLemmas ==
    /\ pc = "text"
    /\ lemmas' = SelectSeq(lemmas, LAMBDA w : w \notin stopwords)
    /\ graph' = NodesOf(lemmas')
    /\ order' = FirstOccurrences(lemmas')
    /\ i' = 0
    /\ pc' = "windows"
    /\ UNCHANGED <<stopwords, max_nodes, sorted_nodes, first_selected,
                   selected_nodes, filtered_graph, compressed_graph,
                   recompressed, result, NLP_CONFIG, installed, history, req,
                   tpc, nlp, tool>>

\* One pass of the loop over the windows.  set(window) is iterated in an
\* order the hash seed of the process decides.
LinkWindow ==
    /\ pc = "windows"
    /\ i < WindowCount(lemmas)
    /\ \E s \in IterationOrders(Range(Window(lemmas, i))) :
           graph' = LinkPairs(graph, Combinations2(s))
    /\ i' = i + 1
    /\ UNCHANGED <<pc, order, stopwords, max_nodes, sorted_nodes,
                   first_selected, selected_nodes, filtered_graph,
                   compressed_graph, recompressed, result, lemmas,
                   NLP_CONFIG, installed, history, req, tpc, nlp, tool>>

\* return graph
LinkReturn ==
    /\ pc = "windows"
    /\ i >= WindowCount(lemmas)
    /\ pc' = "linked"
    /\ UNCHANGED <<graph, order, stopwords, max_nodes, sorted_nodes,
                   first_selected, selected_nodes, filtered_graph,
                   compressed_graph, recompressed, result, lemmas, i,
                   NLP_CONFIG, installed, history, req, tpc, nlp, tool>>

Texts == UNION {[1..n -> LinkLemmas] : n \in 0..MaxLen}

InitLink ==
    /\ pc = "text"
    /\ lemmas \in Texts
    /\ stopwords \in LinkStopChoices
    /\ graph = EmptyGraph
    /\ order = <<>>
    /\ max_nodes = 0
    /\ sorted_nodes = <<>>
    /\ first_selected = <<>>
    /\ selected_nodes = <<>>
    /\ filtered_graph = EmptyGraph
    /\ compressed_graph = EmptyGraph
    /\ recompressed = EmptyGraph
    /\ result = NoResult
    /\ i = 0
    /\ NLP_CONFIG = [tool_name |-> None, pipeline |-> None]
    /\ installed = {}
    /\ history = <<>>
    /\ req = <<>>
    /\ tpc = <<>>
    /\ nlp = <<>>
    /\ tool = <<>>

NextLink ==
    \/ CountLemmas
    \/ LinkWindow
    \/ LinkReturn

SpecLink == InitLink /\ [][NextLink]_vars

(***************************************************************************)
(* Properties of the graph pipeline.                                       *)
(***************************************************************************)
Min(a, b) == IF a < b THEN a ELSE b

Position(s, x) == CHOOSE k \in DOMAIN s : s[k] = x

\* The stopwords, lowercased.
Lowered(stop) == {[k \in DOMAIN w |-> LowerToken(w[k])] : w \in stop}

\* The nodes of g that are no stopword.
NonStopNodes(g, stop) ==
    {n \in g.nodes : [k \in DOMAIN n |-> LowerToken(n[k])] \notin Lowered(stop)}

HasEdgeIn(g, n) == \E e \in DOMAIN g.weight : e[1] = n \/ e[2] = n

\* C1: the graph _filter_network returns has at most max_nodes nodes, and
\* each of them has an incoming or an outgoing edge in the returned graph.
C1_FilterBoundNoIsolates ==
    pc = "filtered" =>
        /\ Cardinality(filtered_graph.nodes) <= max_nodes
        /\ \A n \in filtered_graph.nodes : HasEdgeIn(filtered_graph, n)

\* C1 happens: more candidates than max_nodes, and max_nodes > 0 nodes returned.
C1_Witness ==
    /\ pc = "filtered"
    /\ Len(sorted_nodes) > max_nodes
    /\ max_nodes > 0
    /\ Cardinality(filtered_graph.nodes) = max_nodes

\* C2: after filter, compression and serialization no serialized node is a
\* stopword (compared lowercased), and no serialized edge starts or ends at
\* one, whatever the node's score.
C2_NoStopwordSerialized ==
    pc = "done" =>
        /\ \A nd \in result.nodes : nd.id \in NonStopNodes(graph, stopwords)
        /\ \A ed \in result.edges :
               /\ ed.source \in NonStopNodes(graph, stopwords)
               /\ ed.target \in NonStopNodes(graph, stopwords)

\* C2 happens: a stopword given in upper case names a node of the highest
\* score, and something is serialized.
C2_Witness ==
    /\ pc = "done"
    /\ result.nodes # {}
    /\ \E n \in graph.nodes \ NonStopNodes(graph, stopwords) :
           /\ n \notin stopwords
           /\ Score(graph, n) > 0
           /\ \A m \in graph.nodes : Score(graph, m) <= Score(graph, n)

\* C10: the nodes selected before the isolated nodes are dropped are no
\* stopwords; they are min(max_nodes, number of non-stopword nodes) many; no
\* unselected non-stopword node has a higher score than a selected one, and
\* of two with the same score the one earlier in the graph's node order is
\* taken; the second loop adds nothing.
C10_TopByScore ==
    pc = "filtered" =>
        LET sel == Range(selected_nodes)
            cand == NonStopNodes(graph, stopwords)
        IN  /\ sel \subseteq cand
            /\ Len(selected_nodes) = Cardinality(sel)
            /\ Cardinality(sel) = Min(max_nodes, Cardinality(cand))
            /\ \A s \in sel, u \in cand \ sel :
                   \/ Score(graph, u) < Score(graph, s)
                   \/ /\ Score(graph, u) = Score(graph, s)
                      /\ Position(order, s) < Position(order, u)
            /\ selected_nodes = first_selected

\* C10 happens: the cut falls between two nodes of the same score, and a
\* stopword node was left out of the ranking.
C10_Witness ==
    /\ pc = "filtered"
    /\ NonStopNodes(graph, stopwords) # graph.nodes
    /\ \E s \in Range(selected_nodes) :
           \E u \in NonStopNodes(graph, stopwords) \ Range(selected_nodes) :
               Score(graph, u) = Score(graph, s) /\ Score(graph, s) > 0

(***************************************************************************)
(* Properties of _compress_edges.                                          *)
(***************************************************************************)
\* The nodes with the predecessors and the successors of n.
ClassOf(g, n) ==
    {m \in g.nodes :
        /\ {e[1] : e \in {x \in DOMAIN g.weight : x[2] = m}}
               = {e[1] : e \in {x \in DOMAIN g.weight : x[2] = n}}
        /\ {e[2] : e \in {x \in DOMAIN g.weight : x[1] = m}}
               = {e[2] : e \in {x \in DOMAIN g.weight : x[1] = n}}}

\* The node of the compressed graph c that stands for the node n.
Image(c, n) ==
    IF \E s \in DOMAIN c.group_members : n \in c.group_members[s]
    THEN CHOOSE s \in DOMAIN c.group_members : n \in c.group_members[s]
    ELSE n

\* The edges of g whose two ends have the same image.
Collapsed(g, c) == {e \in DOMAIN g.weight : Image(c, e[1]) = Image(c, e[2])}

RECURSIVE SumResultFrequency(_)
SumResultFrequency(nodes) ==
    IF nodes = {} THEN 0
    ELSE LET nd == CHOOSE x \in nodes : TRUE
         IN  nd.frequency + SumResultFrequency(nodes \ {nd})

\* C4: the edge weights of the compressed graph sum to those of the input
\* less those of the edges whose two ends were merged into one node, and each
\* edge of the compressed graph weighs the sum of the edges remapped onto it.
C4_WeightConserved ==
    pc = "compressed" =>
        /\ TotalWeight(compressed_graph)
               = TotalWeight(graph)
                 - SumWeights(graph.weight, Collapsed(graph, compressed_graph))
        /\ \A ne \in DOMAIN compressed_graph.weight :
               compressed_graph.weight[ne]
                   = SumWeights(graph.weight,
                                {e \in DOMAIN graph.weight :
                                    /\ Image(compressed_graph, e[1]) = ne[1]
                                    /\ Image(compressed_graph, e[2]) = ne[2]})

\* C4 happens: two edges were merged into one.
C4_Witness ==
    /\ pc = "compressed"
    /\ DOMAIN compressed_graph.group_members # {}
    /\ Cardinality(DOMAIN compressed_graph.weight)
           < Cardinality(DOMAIN graph.weight)

\* C3: the frequencies of the serialized nodes sum to the frequencies of
\* the nodes of the filtered graph.
C3_FrequencyConserved ==
    pc = "done" =>
        SumResultFrequency(result.nodes)
            = SumFrequency(filtered_graph, filtered_graph.nodes)

\* graph.nodes[n].get("frequency", 1)
FrequencyOf(g, n) == IF n \in DOMAIN g.frequency THEN g.frequency[n] ELSE 1

\* graph.nodes[n].get("group_members"), {} for none
GroupMembersOf(g, n) ==
    IF n \in DOMAIN g.group_members THEN g.group_members[n] ELSE {}

\* C9: two nodes get the same image exactly if they have the same
\* predecessors and the same successors, and a node alone in its class is in
\* the compressed graph under its own id with its own frequency.
C9_ClassesAndSingletons ==
    pc = "compressed" =>
        /\ \A a \in graph.nodes, b \in graph.nodes :
               (Image(compressed_graph, a) = Image(compressed_graph, b))
                   <=> (b \in ClassOf(graph, a))
        /\ \A n \in graph.nodes :
               ClassOf(graph, n) = {n} =>
                   /\ n \in compressed_graph.nodes
                   /\ FrequencyOf(compressed_graph, n) = FrequencyOf(graph, n)

\* C5: compressing a compressed graph merges nothing and returns the same
\* nodes, the same edges and weights, and the same frequency and group
\* members for every node.
C5_CompressIdempotent ==
    pc = "recompressed" =>
        /\ \A n \in recompressed.nodes : ~StartsWithSuper(n) \/ n \in compressed_graph.nodes
        /\ recompressed.nodes = compressed_graph.nodes
        /\ recompressed.weight = compressed_graph.weight
        /\ \A n \in compressed_graph.nodes :
               /\ FrequencyOf(recompressed, n) = FrequencyOf(compressed_graph, n)
               /\ GroupMembersOf(recompressed, n)
                      = GroupMembersOf(compressed_graph, n)

(***************************************************************************)
(* load_nlp_pipeline and the module-level NLP_CONFIG.  A loaded pipeline   *)
(* is modelled by the name of the annotator it was loaded for.             *)
(***************************************************************************)
ValidNlpTools == {"spacy", "stanza"}
NlpTools == ValidNlpTools \cup {"other"}

NoConfig == [tool_name |-> None, pipeline |-> None]

\* load_nlp_pipeline(tool_name) from the configuration cfg, with the models
\* of `inst` installed: the configuration it leaves and what it raises.
LoadNlpPipeline(cfg, tool_name, inst) ==
    IF cfg.tool_name = tool_name /\ cfg.pipeline # None
    THEN [config |-> cfg, raised |-> None]
    ELSE LET named == [cfg EXCEPT !.tool_name = tool_name]
         IN  IF tool_name \in ValidNlpTools
             THEN IF tool_name \in inst
                  THEN [config |-> [named EXCEPT !.pipeline = tool_name],
                        raised |-> None]
                  ELSE [config |-> named, raised |-> "RuntimeError"]
             ELSE [config |-> named, raised |-> "ValueError"]

\* run_phrase_net_analysis, one request after the other: load_nlp_pipeline,
\* and, unless it raised, the linking step, which reads NLP_CONFIG['pipeline']
\* and NLP_CONFIG['tool_name'].
Request ==
    /\ pc = "serve"
    /\ Len(history) < MaxRequests
    /\ \E nlp_tool \in NlpTools :
           LET l == LoadNlpPipeline(NLP_CONFIG, nlp_tool, installed)
           IN  /\ NLP_CONFIG' = l.config
               /\ history' = Append(history,
                      [nlp_tool |-> nlp_tool,
                       raised |-> l.raised,
                       nlp |-> IF l.raised = None THEN l.config.pipeline ELSE None,
                       tool |-> IF l.raised = None THEN l.config.tool_name ELSE None])
    /\ UNCHANGED <<pc, graph, order, stopwords, max_nodes, sorted_nodes,
                   first_selected, selected_nodes, filtered_graph,
                   compressed_graph, recompressed, result, lemmas, i,
                   installed, req, tpc, nlp, tool>>

InitCache ==
    /\ pc = "serve"
    /\ NLP_CONFIG = NoConfig
    /\ installed \in SUBSET ValidNlpTools
    /\ history = <<>>
    /\ graph = EmptyGraph
    /\ order = <<>>
    /\ stopwords = {}
    /\ max_nodes = 0
    /\ sorted_nodes = <<>>
    /\ first_selected = <<>>
    /\ selected_nodes = <<>>
    /\ filtered_graph = EmptyGraph
    /\ compressed_graph = EmptyGraph
    /\ recompressed = EmptyGraph
    /\ result = NoResult
    /\ lemmas = <<>>
    /\ i = 0
    /\ req = <<>>
    /\ tpc = <<>>
    /\ nlp = <<>>
    /\ tool = <<>>

NextCache == Request

SpecCache == InitCache /\ [][NextCache]_vars

(***************************************************************************)
(* Two requests in the thread pool (main.py, run_in_threadpool), each      *)
(* running run_phrase_net_analysis; the steps are the reads and writes of  *)
(* NLP_CONFIG.                                                             *)
(***************************************************************************)
Threads == {1, 2}

\* line 19: if NLP_CONFIG['tool_name'] == tool_name and pipeline is not None
Check(t) ==
    /\ tpc[t] = "check"
    /\ tpc' = [tpc EXCEPT ![t] =
                  IF NLP_CONFIG.tool_name = req[t] /\ NLP_CONFIG.pipeline # None
                  THEN "read_pipeline" ELSE "set_name"]
    /\ UNCHANGED <<pc, graph, order, stopwords, max_nodes, sorted_nodes,
                   first_selected, selected_nodes, filtered_graph,
                   compressed_graph, recompressed, result, lemmas, i,
                   NLP_CONFIG, installed, history, req, nlp, tool>>

\* line 22: NLP_CONFIG['tool_name'] = tool_name
SetName(t) ==
    /\ tpc[t] = "set_name"
    /\ NLP_CONFIG' = [NLP_CONFIG EXCEPT !.tool_name = req[t]]
    /\ tpc' = [tpc EXCEPT ![t] = "load"]
    /\ UNCHANGED <<pc, graph, order, stopwords, max_nodes, sorted_nodes,
                   first_selected, selected_nodes, filtered_graph,
                   compressed_graph, recompressed, result, lemmas, i,
                   installed, history, req, nlp, tool>>

\* lines 24-41: NLP_CONFIG['pipeline'] = the loaded pipeline, or RuntimeError
Load(t) ==
    /\ tpc[t] = "load"
    /\ NLP_CONFIG' = IF req[t] \in installed
                     THEN [NLP_CONFIG EXCEPT !.pipeline = req[t]]
                     ELSE NLP_CONFIG
    /\ tpc' = [tpc EXCEPT ![t] =
                  IF req[t] \in installed THEN "read_pipeline" ELSE "raised"]
    /\ UNCHANGED <<pc, graph, order, stopwords, max_nodes, sorted_nodes,
                   first_selected, selected_nodes, filtered_graph,
                   compressed_graph, recompressed, result, lemmas, i,
                   installed, history, req, nlp, tool>>

\* line 53: nlp = NLP_CONFIG['pipeline']
ReadPipeline(t) ==
    /\ tpc[t] = "read_pipeline"
    /\ nlp' = [nlp EXCEPT ![t] = NLP_CONFIG.pipeline]
    /\ tpc' = [tpc EXCEPT ![t] = "read_tool"]
    /\ UNCHANGED <<pc, graph, order, stopwords, max_nodes, sorted_nodes,
                   first_selected, selected_nodes, filtered_graph,
                   compressed_graph, recompressed, result, lemmas, i,
                   NLP_CONFIG, installed, history, req, tool>>

\* line 54: tool = NLP_CONFIG['tool_name']
ReadTool(t) ==
    /\ tpc[t] = "read_tool"
    /\ tool' = [tool EXCEPT ![t] = NLP_CONFIG.tool_name]
    /\ tpc' = [tpc EXCEPT ![t] = "linking"]
    /\ UNCHANGED <<pc, graph, order, stopwords, max_nodes, sorted_nodes,
                   first_selected, selected_nodes, filtered_graph,
                   compressed_graph, recompressed, result, lemmas, i,
                   NLP_CONFIG, installed, history, req, nlp>>

\* What NLP_CONFIG holds when the two requests arrive: nothing yet, or a
\* pipeline an earlier request loaded.
ConfigsAtArrival ==
    {NoConfig} \cup {[tool_name |-> a, pipeline |-> a] : a \in ValidNlpTools}

InitThreads ==
    /\ pc = "threads"
    /\ NLP_CONFIG \in ConfigsAtArrival
    /\ installed = ValidNlpTools
    /\ req \in {r \in [Threads -> ValidNlpTools] : \A s, t \in Threads : s # t => r[s] # r[t]}
    /\ tpc = [t \in Threads |-> "check"]
    /\ nlp = [t \in Threads |-> None]
    /\ tool = [t \in Threads |-> None]
    /\ history = <<>>
    /\ graph = EmptyGraph
    /\ order = <<>>
    /\ stopwords = {}
    /\ max_nodes = 0
    /\ sorted_nodes = <<>>
    /\ first_selected = <<>>
    /\ selected_nodes = <<>>
    /\ filtered_graph = EmptyGraph
    /\ compressed_graph = EmptyGraph
    /\ recompressed = EmptyGraph
    /\ result = NoResult
    /\ lemmas = <<>>
    /\ i = 0

NextThreads ==
    \E t \in Threads :
        \/ Check(t)
        \/ SetName(t)
        \/ Load(t)
        \/ ReadPipeline(t)
        \/ ReadTool(t)

SpecThreads == InitThreads /\ [][NextThreads]_vars

(***************************************************************************)
(* Properties of the annotator cache.                                      *)
(***************************************************************************)
\* C7: whatever loads failed before, a request that reaches the linking
\* step runs it with the pipeline loaded for the annotator it named, a
\* request that does not fails with the load's error: load_nlp_pipeline
\* never takes the held pipeline for the one of the annotator asked for when
\* it was loaded for another.
C7_FailureStaysInRequest ==
    /\ \A k \in DOMAIN history :
           \/ /\ history[k].raised = None
              /\ history[k].nlp = history[k].nlp_tool
              /\ history[k].tool = history[k].nlp_tool
           \/ history[k].raised \in {"RuntimeError", "ValueError"}

\* C8: each of the two concurrent requests runs its linking step with the
\* pipeline and the tool name of the annotator it asked for.
C8_ThreadsReadOwnAnnotator ==
    \A t \in Threads :
        tpc[t] = "linking" => nlp[t] = req[t] /\ tool[t] = req[t]

(***************************************************************************)
(* Properties of _orthographic_linking.                                    *)
(***************************************************************************)
WeightOf(g, u, v) ==
    IF <<u, v>> \in DOMAIN g.weight THEN g.weight[<<u, v>>] ELSE 0

\* How many windows of window_size consecutive lemmas hold both x and y.
WindowsWithBoth(ls, x, y) ==
    Cardinality({k \in 1..(Len(ls) - window_size + 1) :
                    /\ \E j \in k..(k + window_size - 1) : ls[j] = x
                    /\ \E j \in k..(k + window_size - 1) : ls[j] = y})

GoldenLemmas == <<Lemma(1), Lemma(2), Lemma(3), Lemma(1), Lemma(2)>>

\* C6, as amended: no node is linked to itself; the weights of the edges
\* between two different lemmas, both directions taken together, sum to the
\* number of windows that hold both; and [a, b, c, a, b] gives exactly three
\* edges of weight 1, one between each two of a, b and c, in either direction.
C6_PairWeightsEitherDirection ==
    pc = "linked" =>
        /\ \A x \in LinkLemmas : WeightOf(graph, x, x) = 0
        /\ \A x \in LinkLemmas, y \in LinkLemmas :
               x # y => WeightOf(graph, x, y) + WeightOf(graph, y, x)
                            = WindowsWithBoth(lemmas, x, y)
        /\ lemmas = GoldenLemmas =>
               /\ Cardinality(DOMAIN graph.weight) = 3
               /\ \A e \in DOMAIN graph.weight : graph.weight[e] = 1
               /\ \A x \in LinkLemmas, y \in LinkLemmas :
                      x # y => (<<x, y>> \in DOMAIN graph.weight
                                    <=> <<y, x>> \notin DOMAIN graph.weight)

\* C6 happens: [a, b, c, a, b] was linked.
C6_Witness ==
    /\ pc = "linked"
    /\ stopwords = {}
    /\ lemmas = GoldenLemmas
    /\ DOMAIN graph.weight # {}

\* C6, as stated: [a, b, c, a, b] gives exactly the edges (a,b), (a,c) and
\* (b,c), each of weight 1, and the edge of a pair of lemmas weighs the number
\* of windows that hold both.
C6_AsStated ==
    pc = "linked" =>
        /\ \A x \in LinkLemmas : WeightOf(graph, x, x) = 0
        /\ lemmas = GoldenLemmas =>
               /\ DOMAIN graph.weight
                      = {<<Lemma(1), Lemma(2)>>, <<Lemma(1), Lemma(3)>>,
                         <<Lemma(2), Lemma(3)>>}
               /\ \A e \in DOMAIN graph.weight : graph.weight[e] = 1
        /\ \A e \in DOMAIN graph.weight :
               graph.weight[e] = WindowsWithBoth(lemmas, e[1], e[2])

=============================================================================
